---------------------------- MODULE Spec2Model ----------------------------
(***************************************************************************)
(* Localization merge and translation-exchange pipeline of the Factorio    *)
(* mod translator: main_gpt.py (merge engine), factorio_gemini_translate.py*)
(* and factorio_gpt_translate.py (bundle protocol, validator, retries).    *)
(*                                                                         *)
(* A Python str is a sequence of one-character strings, a file is its text *)
(* (line terminators included), a dict is a record of its insertion order  *)
(* and its mapping.                                                        *)
(***************************************************************************)
EXTENDS Integers, Sequences, FiniteSets, TLC

VARIABLES
    src,        \* text of the source-language file (src_path)
    dst,        \* text of the destination-language file (dst_path)
    dstExists,  \* os.path.exists(dst_path)
    dst0,       \* the destination text before the first merge
    dst0Exists, \* whether the destination existed before the first merge
    merges,     \* number of merge_locale_files calls so far
    dstInteractive,    \* text of the same destination file as the merge of interactive_translate.py leaves it
    mergesInteractive, \* number of calls of that merge so far
    files,      \* the {filename: text} mapping given to _join_cfg_files
    payload,    \* the bundle text
    parts,      \* the mapping _split_cfg_files returns
    bpc,        \* position in the join / split exchange
    backend,    \* "gemini" or "gpt": the module translate_mod_locales_inplace is of
    maxChars,   \* the max_chars_single_call argument
    disk,       \* the *.cfg files of <mod_dir>/<dst_lang>: {filename: text}
    disk0,      \* the same files when translate_mod_locales_inplace was called
    loaded,     \* files = load_cfg_files_from_dir(dst_dir)
    tpc,        \* position in translate_mod_locales_inplace
    fileIdx,    \* per-file mode: index in `loaded` of the file in translation; 0: one bundle
    bundle,     \* cfg_bundle_text of the running translate_cfg_bundle
    attempt,    \* its loop variable
    baseSystem, \* the instructions of the next call (base_system / user_input)
    lastErr,    \* last_err
    lastReply,  \* the last answer of the service and what became of it
    writes,     \* the files the running call has written, each with the payload it came from
    logCount,   \* entries appended to translated_mods_log.jsonl
    calls,      \* external calls made
    rejects,    \* attempts of the running translate_cfg_bundle rejected so far
    raised,     \* str(e) of the exception that left translate_mod_locales_inplace
    mpc,        \* position in the loop of translate_with_gemini_menu for the mod
    quotaAttempt, \* the loop's attempt counter
    invocations,  \* calls of translate_one for the mod
    vin,        \* input_text given to _validate_same_keys
    vout,       \* output_text given to _validate_same_keys
    vres,       \* what _validate_same_keys returned
    vpc,        \* position of the validation
    MAX_RPM,    \* the module's MAX_RPM setting
    clock,      \* time.time(), in seconds
    last_request_ts, \* _last_request_ts
    stamps,     \* the dispatch timestamps of the calls made, in order
    kinds       \* what the last of those calls was: first attempt, repair, retry after 429

mergeVars  == <<src, dst, dstExists, dst0, dst0Exists, merges,
                dstInteractive, mergesInteractive>>
bundleVars == <<files, payload, parts, bpc>>
xlateVars  == <<backend, maxChars, disk, disk0, loaded, tpc, fileIdx, bundle,
                attempt, baseSystem, lastErr, lastReply, writes, logCount, calls,
                rejects, raised, mpc, quotaAttempt, invocations>>
validateVars == <<vin, vout, vres, vpc>>
rateVars   == <<MAX_RPM, clock, last_request_ts, stamps, kinds>>
vars == <<mergeVars, bundleVars, xlateVars, validateVars, rateVars>>

(***************************************************************************)
(* Bounds of the model                                                     *)
(***************************************************************************)
MaxSrcLen == 2
MaxDstLen == 2
MaxMerges == 2
MaxKeyLines == 2
MaxPayloadLines == 5
MaxTextLines == 2
MaxValLines == 3
MaxRateCalls == 3
MaxOversleep == 1
StartClock == 100
MaxClock == 160

(***************************************************************************)
(* The parts of the state an operation does not use                        *)
(***************************************************************************)
MergeIdle ==
    /\ src = <<>> /\ dst = <<>> /\ dstExists = FALSE
    /\ dst0 = <<>> /\ dst0Exists = FALSE /\ merges = 0
    /\ dstInteractive = <<>> /\ mergesInteractive = 0

BundleIdle ==
    /\ files = <<>> /\ payload = <<>> /\ parts = <<>> /\ bpc = "idle"

XlateIdle ==
    /\ backend = "none" /\ maxChars = 0 /\ disk = <<>> /\ disk0 = <<>>
    /\ loaded = <<>> /\ tpc = "idle" /\ fileIdx = 0 /\ bundle = <<>>
    /\ attempt = 0 /\ baseSystem = <<>> /\ lastErr = <<>> /\ lastReply = <<>>
    /\ writes = <<>> /\ logCount = 0 /\ calls = 0
    /\ rejects = 0 /\ raised = <<>> /\ mpc = "idle" /\ quotaAttempt = 0
    /\ invocations = 0

ValidateIdle ==
    /\ vin = <<>> /\ vout = <<>> /\ vres = <<>> /\ vpc = "idle"

RateIdle ==
    /\ MAX_RPM = 0 /\ clock = 0 /\ last_request_ts = 0 /\ stamps = <<>>
    /\ kinds = "none"

(***************************************************************************)
(* Python str primitives                                                   *)
(***************************************************************************)
NL == "\n"
\* str.strip() / re \s : the whitespace characters the model's alphabet has
WS == {" ", "\t", "\n", "\r", "\f"}
\* the argument of line.lstrip("; \t")
CommentWS == {";", " ", "\t"}

Range(s) == {s[i] : i \in DOMAIN s}

\* TRUE for every value: reading it computes v, as a statement of the code
\* computes its value before the next statement runs
Evaluated(v) == v = v

\* s[i:] (1-based, inclusive)
From(s, i) == SubSeq(s, i, Len(s))

\* str.lstrip(chars)
LStrip(s, chars) ==
    IF \A i \in DOMAIN s : s[i] \in chars THEN <<>>
    ELSE From(s, CHOOSE i \in DOMAIN s :
                    s[i] \notin chars /\ \A j \in 1..(i - 1) : s[j] \in chars)

\* str.rstrip(chars)
RStrip(s, chars) ==
    IF \A i \in DOMAIN s : s[i] \in chars THEN <<>>
    ELSE SubSeq(s, 1, CHOOSE i \in DOMAIN s :
                    s[i] \notin chars /\ \A j \in (i + 1)..Len(s) : s[j] \in chars)

\* str.strip()
Strip(s) == RStrip(LStrip(s, WS), WS)

\* s.startswith(p)
StartsWith(s, p) == Len(s) >= Len(p) /\ SubSeq(s, 1, Len(p)) = p

\* s.endswith(p)
EndsWith(s, p) == Len(s) >= Len(p) /\ SubSeq(s, Len(s) - Len(p) + 1, Len(s)) = p

\* c in s, for a single character c
HasChar(s, c) == \E i \in DOMAIN s : s[i] = c

\* s.split(c, 1)[0]
BeforeFirst(s, c) ==
    IF ~HasChar(s, c) THEN s
    ELSE SubSeq(s, 1, (CHOOSE i \in DOMAIN s :
                    s[i] = c /\ \A j \in 1..(i - 1) : s[j] # c) - 1)

\* the line boundaries of str.splitlines() the model's alphabet has
LineBoundaries == {"\n", "\r", "\f"}

\* position i of text is the last character of a line boundary: a boundary
\* character, except the "\r" of a "\r\n"
EndsBoundary(text, i) ==
    /\ text[i] \in LineBoundaries
    /\ ~(text[i] = "\r" /\ i < Len(text) /\ text[i + 1] = "\n")

\* a text with no line boundary before its end: the text without that boundary
OneLine(text) ==
    LET n == Len(text)
    IN  IF text[n] \notin LineBoundaries THEN text
        ELSE IF n >= 2 /\ text[n - 1] = "\r" /\ text[n] = "\n"
        THEN SubSeq(text, 1, n - 2)
        ELSE SubSeq(text, 1, n - 1)

\* str.splitlines(): "\r\n" is one boundary, no empty last element. The text
\* is cut after the line boundary nearest to its middle and the lines of the
\* two parts are joined, so that the depth of the evaluation grows with the
\* logarithm of the number of lines.
RECURSIVE SplitLines(_)
SplitLines(text) ==
    IF text = <<>> THEN <<>>
    ELSE LET n    == Len(text)
             cuts == {i \in 1..(n - 1) : EndsBoundary(text, i)}
         IN  IF cuts = {} THEN <<OneLine(text)>>
             ELSE LET Dist(i) == IF 2 * i >= n THEN 2 * i - n ELSE n - 2 * i
                      m == CHOOSE i \in cuts : \A j \in cuts :
                                Dist(i) < Dist(j) \/ (Dist(i) = Dist(j) /\ i <= j)
                  IN  SplitLines(SubSeq(text, 1, m)) \o SplitLines(From(text, m + 1))

\* "\n".join(lines)
RECURSIVE JoinNL(_)
JoinNL(lines) ==
    IF lines = <<>> THEN <<>>
    ELSE IF Len(lines) = 1 THEN lines[1]
    ELSE lines[1] \o <<NL>> \o JoinNL(Tail(lines))

\* [l.rstrip("\n") for l in f] : the lines of a text file
RECURSIVE FileLines(_)
FileLines(text) ==
    IF text = <<>> THEN <<>>
    ELSE IF ~HasChar(text, NL) THEN <<text>>
    ELSE LET line == BeforeFirst(text, NL)
         IN  <<line>> \o FileLines(From(text, Len(line) + 2))


(***************************************************************************)
(* main_gpt.py : parse_ru_lines                                            *)
(***************************************************************************)
\* None / the empty dict
None == <<>>
EmptyDict == [x \in {} |-> <<>>]

\* stripped = line.lstrip("; \t"); stripped.startswith("[") and stripped.endswith("]")
IsSectionHeader(line) ==
    LET stripped == LStrip(line, CommentWS)
    IN  StartsWith(stripped, <<"[">>) /\ EndsWith(stripped, <<"]">>)

\* line_stripped.split("=", 1)[0].strip() of a destination line
RuKeyOf(line) == Strip(BeforeFirst(LStrip(line, CommentWS), "="))

\* the iteration with ru_keys keeping the first line of a key, not the last
ParseRuStepFirstLineKept(st, line) ==
    LET stripped == LStrip(line, CommentWS)
    IN  IF IsSectionHeader(line)
        THEN [cur   |-> stripped,
              order |-> IF stripped \in DOMAIN st.lines THEN st.order
                        ELSE Append(st.order, stripped),
              lines |-> IF stripped \in DOMAIN st.lines
                        THEN [st.lines EXCEPT ![stripped] = Append(@, line)]
                        ELSE (stripped :> <<line>>) @@ st.lines,
              keys  |-> IF stripped \in DOMAIN st.keys THEN st.keys
                        ELSE (stripped :> EmptyDict) @@ st.keys]
        ELSE IF st.cur # None
        THEN [st EXCEPT
                !.lines = [@ EXCEPT ![st.cur] = Append(@, line)],
                !.keys  = IF HasChar(line, "=") /\ HasChar(stripped, "=")
                          THEN [@ EXCEPT ![st.cur] = @ @@ (RuKeyOf(line) :> line)]
                          ELSE @]
        ELSE st

\* one iteration of the for loop of parse_ru_lines; st.order/st.lines are
\* ru_sections (insertion order and mapping), st.keys is ru_keys
ParseRuStep(st, line) ==
    LET stripped == LStrip(line, CommentWS)
    IN  IF IsSectionHeader(line)
        THEN [cur   |-> stripped,
              order |-> IF stripped \in DOMAIN st.lines THEN st.order
                        ELSE Append(st.order, stripped),
              lines |-> IF stripped \in DOMAIN st.lines
                        THEN [st.lines EXCEPT ![stripped] = Append(@, line)]
                        ELSE (stripped :> <<line>>) @@ st.lines,
              keys  |-> IF stripped \in DOMAIN st.keys THEN st.keys
                        ELSE (stripped :> EmptyDict) @@ st.keys]
        ELSE IF st.cur # None
        THEN [st EXCEPT
                !.lines = [@ EXCEPT ![st.cur] = Append(@, line)],
                !.keys  = IF HasChar(line, "=") /\ HasChar(stripped, "=")
                          THEN [@ EXCEPT ![st.cur] = (RuKeyOf(line) :> line) @@ @]
                          ELSE @]
        ELSE st

RECURSIVE ParseRuLoop(_, _)
ParseRuLoop(st, lines) ==
    IF lines = <<>> THEN st
    ELSE LET next == ParseRuStep(st, Head(lines))
         IN  IF Evaluated(next) THEN ParseRuLoop(next, Tail(lines)) ELSE next

\* parse_ru_lines(lines) -> (ru_sections, ru_keys)
parse_ru_lines(lines) ==
    ParseRuLoop([cur |-> None, order |-> <<>>, lines |-> EmptyDict,
                 keys |-> EmptyDict], lines)

(***************************************************************************)
(* main_gpt.py : merge_locale_files                                        *)
(***************************************************************************)
\* the obsolete.append decision of add_obsolete_section_lines for one line:
\* the lines (none or one) it contributes
ObsoleteOf(line, enKeysOfSection) ==
    IF IsSectionHeader(line) THEN <<>>
    ELSE IF HasChar(line, "=")
    THEN IF HasChar(LStrip(line, CommentWS), "=")
         THEN IF RuKeyOf(line) \notin enKeysOfSection
              THEN IF ~StartsWith(line, <<";">>)
                   THEN << <<";", " ">> \o line >>
                   ELSE <<line>>
              ELSE <<>>
         ELSE <<line>>
    ELSE <<line>>

RECURSIVE ObsoleteLines(_, _)
ObsoleteLines(lines, enKeysOfSection) ==
    IF lines = <<>> THEN <<>>
    ELSE ObsoleteOf(Head(lines), enKeysOfSection)
            \o ObsoleteLines(Tail(lines), enKeysOfSection)

\* add_obsolete_section_lines(section_clean): what it extends output_lines by
add_obsolete_section_lines(section_clean, ru, en_keys) ==
    IF section_clean \notin DOMAIN ru.lines THEN <<>>
    ELSE ObsoleteLines(ru.lines[section_clean],
                       IF section_clean \in DOMAIN en_keys
                       THEN en_keys[section_clean] ELSE {})

\* re.sub(r"^[;\s]+", "", ru_line) when ru_line.startswith(";")
Uncomment(ru_line) ==
    IF StartsWith(ru_line, <<";">>) THEN LStrip(ru_line, {";"} \cup WS)
    ELSE ru_line

\* the line the key branch of the source walk appends for source line `line`
\* of section `sec`
TranslationOf(line, sec, ru) ==
    LET key == Strip(BeforeFirst(line, "="))
    IN  IF sec \in DOMAIN ru.keys /\ key \in DOMAIN ru.keys[sec]
        THEN Uncomment(ru.keys[sec][key])
        ELSE line

\* a source line the walk treats as a key line
IsEnKeyLine(line, cur) ==
    /\ ~IsSectionHeader(line)
    /\ cur # None
    /\ HasChar(line, "=")
    /\ ~StartsWith(line, <<";">>)

\* one iteration of the while loop over src_lines (i is 1-based)
MergeStep(st, src_lines, i, ru) ==
    LET line == src_lines[i]
        stripped == LStrip(line, CommentWS)
        a == IF IsSectionHeader(line)
             THEN [cur         |-> stripped,
                   en_sections |-> st.en_sections \cup {stripped},
                   en_keys     |-> IF stripped \in DOMAIN st.en_keys THEN st.en_keys
                                   ELSE (stripped :> {}) @@ st.en_keys,
                   out         |-> Append(st.out, line)]
             ELSE IF IsEnKeyLine(line, st.cur)
             THEN [st EXCEPT
                     !.en_keys = [@ EXCEPT ![st.cur] =
                                     @ \cup {Strip(BeforeFirst(line, "="))}],
                     !.out = Append(@, TranslationOf(line, st.cur, ru))]
             ELSE [st EXCEPT !.out = Append(@, line)]
        next_is_new_section ==
             IF i + 1 <= Len(src_lines) THEN IsSectionHeader(src_lines[i + 1])
             ELSE TRUE
    IN  IF next_is_new_section /\ a.cur # None
        THEN [a EXCEPT
                !.out = @ \o add_obsolete_section_lines(a.cur, ru, a.en_keys),
                !.cur = None]
        ELSE a

RECURSIVE MergeLoop(_, _, _, _)
MergeLoop(st, src_lines, i, ru) ==
    IF i > Len(src_lines) THEN st
    ELSE LET next == MergeStep(st, src_lines, i, ru)
         IN  IF Evaluated(next) THEN MergeLoop(next, src_lines, i + 1, ru) ELSE next

\* the state of the source walk when the while loop ends
SourceWalk(src_lines, ru) ==
    MergeLoop([cur |-> None, en_sections |-> {}, en_keys |-> EmptyDict,
               out |-> <<>>], src_lines, 1, ru)

\* a merge that forgets the sections only the destination has
RuOnlySectionsForgotten(order, ru, en_sections) == <<>>

\* for section_clean, lines in ru_sections.items(): if not in en_sections ...
RECURSIVE RuOnlySections(_, _, _)
RuOnlySections(order, ru, en_sections) ==
    IF order = <<>> THEN <<>>
    ELSE (IF Head(order) \notin en_sections
          THEN ru.lines[Head(order)] \o << <<>> >>
          ELSE <<>>)
         \o RuOnlySections(Tail(order), ru, en_sections)

\* collapse_blank_runs(lines, max_consecutive=1)
RECURSIVE CollapseFrom(_, _)
CollapseFrom(lines, run) ==
    IF lines = <<>> THEN <<>>
    ELSE IF Head(lines) = <<>>
    THEN (IF run + 1 <= 1 THEN << <<>> >> ELSE <<>>)
            \o CollapseFrom(Tail(lines), run + 1)
    ELSE <<Head(lines)>> \o CollapseFrom(Tail(lines), 0)

\* the output left as it is, runs of blank lines included
collapse_blank_runs_skipped(lines) == lines

collapse_blank_runs(lines) == CollapseFrom(lines, 0)

\* while output_lines and output_lines[-1] == "": output_lines.pop()
RECURSIVE PopTrailingBlank(_)
PopTrailingBlank(lines) ==
    IF lines # <<>> /\ lines[Len(lines)] = <<>>
    THEN PopTrailingBlank(SubSeq(lines, 1, Len(lines) - 1))
    ELSE lines

\* output_lines just before the file is written
MergedLines(src_lines, dst_lines) ==
    LET ru == parse_ru_lines(dst_lines)
        w  == SourceWalk(src_lines, ru)
    IN  PopTrailingBlank(collapse_blank_runs(
            w.out \o RuOnlySections(ru.order, ru, w.en_sections)))

\* the text merge_locale_files writes to dst_path when dst_path exists
MergedText(srcText, dstText) ==
    JoinNL(MergedLines(FileLines(srcText), FileLines(dstText))) \o <<NL>>


(***************************************************************************)
(* The files the merge is run on                                           *)
(***************************************************************************)
\* lines of a source-language file: headers, a key, a comment, a blank line
SrcLinePool ==
    { <<"[", "a", "]">>, <<"[", "b", "]">>, <<"k", "=", "v">>,
      <<";", " ", "c">>, <<>> }

\* lines of a destination-language file: a shared and a destination-only
\* header, an active, a tombstoned and an indented tombstoned translation of
\* k, a blank line
DstLinePool ==
    { <<"[", "a", "]">>, <<"[", "c", "]">>, <<"k", "=", "V">>,
      <<";", " ", "k", "=", "W">>, <<" ", ";", "k", "=", "U">>, <<>> }

SeqsUpTo(pool, n) == UNION {[1..m -> pool] : m \in 0..n}

\* f.write("\n".join(lines) + "\n")
TextOf(lines) == JoinNL(lines) \o <<NL>>

\* key lines of one destination section: translations of k and of j, active
\* and tombstoned
DstKeyPool ==
    { <<"k", "=", "V">>, <<";", " ", "k", "=", "W">>,
      <<"j", "=", "J">>, <<";", " ", "j", "=", "K">> }

\* destination files of one section [a] with up to MaxKeyLines key lines
SectionedDstTexts ==
    {TextOf(<< <<"[", "a", "]">> >> \o ls) : ls \in SeqsUpTo(DstKeyPool, MaxKeyLines)}

SrcTexts == {TextOf(ls) : ls \in SeqsUpTo(SrcLinePool, MaxSrcLen)}
DstTexts == {TextOf(ls) : ls \in SeqsUpTo(DstLinePool, MaxDstLen)}
                \cup SectionedDstTexts

\* a merge without the base case: a missing destination read as an empty file
merge_locale_files_no_base_case(srcText, dstText, exists) ==
    MergedText(srcText, IF exists THEN dstText ELSE <<>>)

\* merge_locale_files(src_path, dst_path): the text of dst_path when it returns
merge_locale_files(srcText, dstText, exists) ==
    IF ~exists
    THEN srcText                        \* shutil.copy(src_path, dst_path); return
    ELSE MergedText(srcText, dstText)

\* one call of merge_locale_files(src_path, dst_path)
MergeLocaleFiles ==
    /\ merges < MaxMerges
    /\ dst' = merge_locale_files(src, dst, dstExists)
    /\ dstExists' = TRUE
    /\ merges' = merges + 1
    /\ UNCHANGED <<src, dst0, dst0Exists, dstInteractive, mergesInteractive>>
    /\ UNCHANGED <<bundleVars, xlateVars, validateVars, rateVars>>

MergeInit ==
    /\ src \in SrcTexts
    /\ dstExists \in BOOLEAN
    /\ dst \in IF dstExists THEN DstTexts ELSE {<<>>}
    /\ dst0 = dst
    /\ dst0Exists = dstExists
    /\ merges = 0
    /\ dstInteractive = dst
    /\ mergesInteractive = 0
    /\ BundleIdle
    /\ XlateIdle
    /\ ValidateIdle
    /\ RateIdle

MergeNext == MergeLocaleFiles

MergeSpec == MergeInit /\ [][MergeNext]_vars


(***************************************************************************)
(* factorio_gemini_translate.py / factorio_gpt_translate.py :              *)
(* _join_cfg_files, _split_cfg_files (the two files hold the same code)    *)
(***************************************************************************)
\* a dict is the sequence of its <<key, value>> items in insertion order
DictKeys(d) == {d[i][1] : i \in DOMAIN d}
DictGet(d, k) == d[CHOOSE i \in DOMAIN d : d[i][1] = k][2]

\* d[k] = v
DictSet(d, k, v) ==
    IF k \in DictKeys(d)
    THEN [i \in DOMAIN d |-> IF d[i][1] = k THEN <<k, v>> ELSE d[i]]
    ELSE Append(d, <<k, v>>)

\* f"; ===FILE: {name} ===" and f"; ===END FILE: {name} ==="
BeginMarker(name) == <<";", " ", "=", "=", "=", "F", "I", "L", "E", ":", " ">> \o name \o <<" ", "=", "=", "=">>
EndMarker(name) == <<";", " ", "=", "=", "=", "E", "N", "D", " ", "F", "I", "L", "E", ":", " ">> \o name \o <<" ", "=", "=", "=">>

\* sub in text
Contains(text, sub) ==
    \E i \in 1..(Len(text) - Len(sub) + 1) : SubSeq(text, i, i + Len(sub) - 1) = sub

\* the parts list of _join_cfg_files
RECURSIVE JoinParts(_)
JoinParts(d) ==
    IF d = <<>> THEN <<>>
    ELSE << BeginMarker(d[1][1]), RStrip(d[1][2], {NL}), EndMarker(d[1][1]), <<>> >>
            \o JoinParts(Tail(d))

\* _join_cfg_files(files)
join_cfg_files(d) == RStrip(JoinNL(JoinParts(d)), {NL}) \o <<NL>>

\* FILE_MARKER_RE.match(line): group(1), or None when the line does not match
\* ^\s*;\s*===FILE:\s*(.+?)\s*===\s*$
FileMarkerName(line) ==
    LET t1 == LStrip(line, WS)
    IN  IF ~StartsWith(t1, <<";">>) THEN None
        ELSE LET t2 == LStrip(Tail(t1), WS)
             IN  IF ~StartsWith(t2, <<"=", "=", "=", "F", "I", "L", "E", ":">>) THEN None
                 ELSE LET rest == From(t2, Len(<<"=", "=", "=", "F", "I", "L", "E", ":">>) + 1)
                          t3 == LStrip(rest, WS)
                          r  == RStrip(t3, WS)
                      IN  IF ~EndsWith(r, <<"=", "=", "=">>) THEN None
                          ELSE IF Len(r) > Len(<<"=", "=", "=">>)
                          THEN RStrip(SubSeq(r, 1, Len(r) - Len(<<"=", "=", "=">>)), WS)
                          \* the name is empty: the regex backtracks and takes
                          \* the last whitespace character before "===" as name
                          ELSE IF Len(rest) > Len(t3)
                          THEN <<rest[Len(rest) - Len(t3)]>>
                          ELSE None

\* line.strip().startswith("; ===END FILE:")
IsEndMarkerLine(line) == StartsWith(Strip(line), <<";", " ", "=", "=", "=", "E", "N", "D", " ", "F", "I", "L", "E", ":">>)

\* one iteration of the loop of _split_cfg_files
SplitStep(st, line) ==
    LET m == FileMarkerName(line)
    IN  IF m # None
        THEN [out     |-> IF st.current # None
                          THEN DictSet(st.out, st.current, st.buf) ELSE st.out,
              current |-> m,
              buf     |-> <<>>]
        ELSE IF st.current # None /\ IsEndMarkerLine(line)
        THEN [out     |-> DictSet(st.out, st.current, st.buf),
              current |-> None,
              buf     |-> <<>>]
        ELSE IF st.current # None
        THEN [st EXCEPT !.buf = Append(@, line)]
        ELSE st

\* the loop over the lines, first to last: the state after the first half of
\* the lines is the state the second half starts from
RECURSIVE SplitLoop(_, _)
SplitLoop(st, lines) ==
    IF lines = <<>> THEN st
    ELSE IF Len(lines) = 1 THEN SplitStep(st, lines[1])
    ELSE LET h   == Len(lines) \div 2
             mid == SplitLoop(st, SubSeq(lines, 1, h))
         IN  IF Evaluated(mid) THEN SplitLoop(mid, From(lines, h + 1)) ELSE mid

\* the split without the save of a file that no END marker closed
split_cfg_files_closed_only(bundle_text) ==
    LET st  == SplitLoop([out |-> <<>>, current |-> None, buf |-> <<>>],
                         SplitLines(bundle_text))
        out == st.out
    IN  [i \in DOMAIN out |->
            <<out[i][1], RStrip(JoinNL(out[i][2]), {NL}) \o <<NL>> >>]

\* _split_cfg_files(bundle_text)
split_cfg_files(bundle_text) ==
    LET st  == SplitLoop([out |-> <<>>, current |-> None, buf |-> <<>>],
                         SplitLines(bundle_text))
        out == IF st.current # None THEN DictSet(st.out, st.current, st.buf)
               ELSE st.out
    IN  [i \in DOMAIN out |->
            <<out[i][1], RStrip(JoinNL(out[i][2]), {NL}) \o <<NL>> >>]

(***************************************************************************)
(* factorio_gemini_translate.py / factorio_gpt_translate.py :              *)
(* _extract_cfg_keys                                                       *)
(***************************************************************************)
\* one iteration of the loop of _extract_cfg_keys
ExtractStep(st, raw) ==
    LET line == Strip(raw)
    IN  IF line = <<>> \/ StartsWith(line, <<";">>) \/ StartsWith(line, <<"#">>)
        THEN st
        ELSE IF StartsWith(line, <<"[">>) /\ EndsWith(line, <<"]">>)
        THEN [st EXCEPT !.section = line]
        ELSE IF HasChar(line, "=") /\ Strip(BeforeFirst(line, "=")) # <<>>
        THEN [st EXCEPT !.keys =
                Append(@, <<st.section, Strip(BeforeFirst(line, "="))>>)]
        ELSE st

\* the loop over the lines, first to last: the state after the first half of
\* the lines is the state the second half starts from
RECURSIVE ExtractLoop(_, _)
ExtractLoop(st, lines) ==
    IF lines = <<>> THEN st
    ELSE IF Len(lines) = 1 THEN ExtractStep(st, lines[1])
    ELSE LET h   == Len(lines) \div 2
             mid == ExtractLoop(st, SubSeq(lines, 1, h))
         IN  IF Evaluated(mid) THEN ExtractLoop(mid, From(lines, h + 1)) ELSE mid

\* _extract_cfg_keys(text): the (section, key) pairs in order of appearance
extract_cfg_keys(text) ==
    ExtractLoop([section |-> <<>>, keys |-> <<>>], SplitLines(text)).keys

(***************************************************************************)
(* Readings of the merge's input and output used by the properties         *)
(***************************************************************************)
SrcLines  == FileLines(src)
Dst0Lines == FileLines(dst0)
DstLines  == FileLines(dst)

\* the state right after the first merge into an existing destination
FirstMergeDone == merges = 1 /\ dst0Exists

\* normalized names of the sections of a list of lines
SectionNames(lines) ==
    {LStrip(lines[i], CommentWS) : i \in {j \in DOMAIN lines : IsSectionHeader(lines[j])}}

\* the section a line stands in: the normalized name of the last header at
\* or before position i, None before the first header
RECURSIVE SectionAt(_, _)
SectionAt(lines, i) ==
    IF i = 0 THEN None
    ELSE IF IsSectionHeader(lines[i]) THEN LStrip(lines[i], CommentWS)
    ELSE SectionAt(lines, i - 1)

\* positions of the key=value lines (active or commented) of a destination
KeyLinePositions(lines) ==
    {i \in DOMAIN lines : ~IsSectionHeader(lines[i]) /\ HasChar(lines[i], "=")}

\* positions of the active key=value lines of a source
SrcKeyPositions(lines) ==
    {i \in DOMAIN lines : /\ ~IsSectionHeader(lines[i])
                          /\ HasChar(lines[i], "=")
                          /\ ~StartsWith(lines[i], <<";">>)}

SrcKeyOf(line) == Strip(BeforeFirst(line, "="))

\* a line whose first non-blank character is the comment marker
IsCommented(line) == StartsWith(LStrip(line, WS), <<";">>)

NonBlank(lines) == SelectSeq(lines, LAMBDA l : l # <<>>)

\* the lines of section S of a list of lines, header lines included
SectionLines(lines, S) ==
    LET ru == parse_ru_lines(lines)
    IN  IF S \in DOMAIN ru.lines THEN ru.lines[S] ELSE <<>>

\* the sections of the destination that the source does not have
DstOnlySections == SectionNames(Dst0Lines) \ SectionNames(SrcLines)

(***************************************************************************)
(* C1  Merge is idempotent: a merge run on the output of an earlier merge  *)
(* of the same source leaves the destination file exactly as it was; the   *)
(* second run adds no comment line, comment marker or blank line.  Stated  *)
(* for a destination that existed before the first run, the law            *)
(* Merge(src, Merge(src, dst)) = Merge(src, dst).                          *)
(***************************************************************************)
C1_MergeIdempotent == [][(merges >= 1 /\ dst0Exists) => dst' = dst]_vars

(***************************************************************************)
(* C2  Merge key completeness: after a merge into an existing destination, *)
(* every (section, key) of an active key=value line of the source is the   *)
(* (section, key) of an active key=value line of the result.               *)
(***************************************************************************)
C2_KeyCompleteness ==
    FirstMergeDone =>
        Range(extract_cfg_keys(src)) \subseteq Range(extract_cfg_keys(dst))

(***************************************************************************)
(* C3  Merge tombstone preservation: after a merge into an existing        *)
(* destination, every key=value line of the old destination, wherever it   *)
(* stood, whose key is no key of the source, is in the result as a         *)
(* comment-prefixed line with the same key and value.                      *)
(***************************************************************************)
C3_TombstonePreserved ==
    FirstMergeDone =>
        \A i \in KeyLinePositions(Dst0Lines) :
            RuKeyOf(Dst0Lines[i]) \notin
                    {SrcKeyOf(SrcLines[j]) : j \in SrcKeyPositions(SrcLines)}
            => \E r \in Range(DstLines) :
                    /\ StartsWith(r, <<";">>)
                    /\ LStrip(r, CommentWS) = LStrip(Dst0Lines[i], CommentWS)

(***************************************************************************)
(* C4  Destination-only sections survive.                                  *)
(* As claimed: every section of the old destination that the source does   *)
(* not have is in the result with exactly its old lines, in order; these   *)
(* sections come after everything else and keep their relative order.      *)
(***************************************************************************)
DstOnlyAfterSource(R, only) ==
    \A i, j \in DOMAIN R :
        (/\ i < j
         /\ IsSectionHeader(R[i]) /\ LStrip(R[i], CommentWS) \in only
         /\ IsSectionHeader(R[j]))
            => LStrip(R[j], CommentWS) \in only

DstOnlyOrderKept(ruR, ru0, only) ==
    SelectSeq(ruR.order, LAMBDA S : S \in only)
        = SelectSeq(ru0.order, LAMBDA S : S \in only)

LinesOf(ru, S) == IF S \in DOMAIN ru.lines THEN ru.lines[S] ELSE <<>>

C4_DstOnlyVerbatim ==
    FirstMergeDone =>
        LET only == DstOnlySections
            ruR  == parse_ru_lines(DstLines)
            ru0  == parse_ru_lines(Dst0Lines)
        IN  only # {} =>
                /\ \A S \in only : LinesOf(ruR, S) = LinesOf(ru0, S)
                /\ DstOnlyAfterSource(DstLines, only)
                /\ DstOnlyOrderKept(ruR, ru0, only)

\* As amended: the same, for the non-blank lines of each such section
C4_DstOnlyNonBlankVerbatim ==
    FirstMergeDone =>
        LET only == DstOnlySections
            ruR  == parse_ru_lines(DstLines)
            ru0  == parse_ru_lines(Dst0Lines)
        IN  only # {} =>
                /\ \A S \in only :
                        NonBlank(LinesOf(ruR, S)) = NonBlank(LinesOf(ru0, S))
                /\ DstOnlyAfterSource(DstLines, only)
                /\ DstOnlyOrderKept(ruR, ru0, only)

\* two destination-only sections merged below a source with a section and
\* a key of its own
C4_Witness ==
    /\ FirstMergeDone
    /\ Cardinality(DstOnlySections) = 2
    /\ SectionNames(SrcLines) # {}
    /\ SrcKeyPositions(SrcLines) # {}

(***************************************************************************)
(* C5  Base case: when the destination file does not exist, the merge      *)
(* leaves a destination whose text is the source text, character for       *)
(* character.                                                              *)
(***************************************************************************)
C5_BaseCaseCopy ==
    (merges = 1 /\ ~dst0Exists) => (dstExists /\ dst = src)

\* a first merge without destination, of a source a merge would have changed
C5_Witness ==
    /\ merges = 1
    /\ ~dst0Exists
    /\ dst = src
    /\ src # MergedText(src, <<>>)

(***************************************************************************)
(* C6  Translation carry-forward and revival: after a merge into an        *)
(* existing destination, for every key line of the source with key K in    *)
(* section S: when the old destination has lines for K in S, the result    *)
(* has in S one of them with its leading comment prefix removed; when it   *)
(* has none, the result has in S the source line itself.                   *)
(***************************************************************************)
C6_CarryForward ==
    FirstMergeDone =>
        \A i \in SrcKeyPositions(SrcLines) :
            LET S == SectionAt(SrcLines, i)
                K == SrcKeyOf(SrcLines[i])
                old == {j \in KeyLinePositions(Dst0Lines) :
                            /\ SectionAt(Dst0Lines, j) = S
                            /\ RuKeyOf(Dst0Lines[j]) = K}
            IN  S # None =>
                    IF old # {}
                    THEN \E j \in old : LStrip(Dst0Lines[j], CommentWS)
                                            \in Range(SectionLines(DstLines, S))
                    ELSE SrcLines[i] \in Range(SectionLines(DstLines, S))


(***************************************************************************)
(* The bundle exchange: a mapping is joined, the payload is split          *)
(***************************************************************************)
BundleNames == {<<"a">>, <<"b">>}

\* lines of a file's text: a key, a blank line, a line with a form feed
BundleLinePool == { <<"k", "=", "v">>, <<>>, <<"x", "\f", "y">> }

\* texts with and without final line terminator, and two texts that hold
\* marker syntax
BundleTexts ==
    {JoinNL(ls) \o term : ls \in SeqsUpTo(BundleLinePool, MaxTextLines),
                          term \in {<<>>, <<NL>>}}
    \cup {EndMarker(<<"a">>) \o <<NL>>, BeginMarker(<<"b">>) \o <<NL>>}

\* the dicts with one or more of the names as keys
BundleMappings ==
    {d \in UNION {[1..n -> BundleNames \X BundleTexts] : n \in 1..Cardinality(BundleNames)} :
        \A i, j \in DOMAIN d : i # j => d[i][1] # d[j][1]}

\* bundle = _join_cfg_files(files)
JoinCfgFiles ==
    /\ bpc = "start"
    /\ payload' = join_cfg_files(files)
    /\ bpc' = "joined"
    /\ UNCHANGED <<files, parts>>
    /\ UNCHANGED <<mergeVars, xlateVars, validateVars, rateVars>>

\* translated_files = _split_cfg_files(bundle)
SplitCfgFiles ==
    /\ bpc = "joined"
    /\ parts' = split_cfg_files(payload)
    /\ bpc' = "split"
    /\ UNCHANGED <<files, payload>>
    /\ UNCHANGED <<mergeVars, xlateVars, validateVars, rateVars>>

BundleInit ==
    /\ files \in BundleMappings
    /\ payload = <<>>
    /\ parts = <<>>
    /\ bpc = "start"
    /\ MergeIdle
    /\ XlateIdle
    /\ ValidateIdle
    /\ RateIdle

BundleNext == JoinCfgFiles \/ SplitCfgFiles

BundleSpec == BundleInit /\ [][BundleNext]_vars

\* a text that holds marker syntax: a line the split takes for a marker
HasMarkerSyntax(text) ==
    \E l \in Range(SplitLines(text)) : FileMarkerName(l) # None \/ IsEndMarkerLine(l)

\* trailing-newline normalization of a text
NormalizeTrailingNL(text) == RStrip(text, {NL}) \o <<NL>>

(***************************************************************************)
(* C7  Bundle round-trip: for a mapping of one or more distinct names to   *)
(* texts without marker syntax, splitting the joined payload returns the   *)
(* same names, each with its text up to trailing-newline normalization.    *)
(***************************************************************************)
C7_BundleRoundTrip ==
    (bpc = "split" /\ \A i \in DOMAIN files : ~HasMarkerSyntax(files[i][2])) =>
        /\ DictKeys(parts) = DictKeys(files)
        /\ \A n \in DictKeys(files) :
                DictGet(parts, n) = NormalizeTrailingNL(DictGet(files, n))


(***************************************************************************)
(* factorio_gemini_translate.py / factorio_gpt_translate.py :              *)
(* the exchange validator                                                  *)
(***************************************************************************)
\* the [:50] of _validate_same_keys
KeyListCap == 50
\* the default of max_retries
max_retries == 2
\* the default of max_chars_single_call
max_chars_single_call == 140000

Take(s, n) == SubSeq(s, 1, IF Len(s) < n THEN Len(s) ELSE n)

\* s.split(c, 1)[1] when c is in s
AfterFirst(s, c) == From(s, Len(BeforeFirst(s, c)) + 2)

\* The grave accent of a code fence: a TLA+ string cannot hold that character,
\* so the model writes it "^", a character no other text of the model uses.
GraveAccent == "^"
Fence == <<GraveAccent, GraveAccent, GraveAccent>>

\* _strip_code_fences(text)
strip_code_fences(text) ==
    LET t0 == Strip(text)
        t  == IF StartsWith(t0, Fence)
              THEN LET t1 == IF HasChar(t0, NL) THEN AfterFirst(t0, NL) ELSE <<>>
                       t2 == RStrip(t1, WS)
                   IN  IF EndsWith(t2, Fence)
                       THEN SubSeq(t2, 1, Len(t2) - Len(Fence))
                       ELSE t2
              ELSE t0
    IN  RStrip(LStrip(t, {NL}), {NL}) \o <<NL>>

\* _has_all_markers(bundle_text, expected_files)
has_all_markers(bundle_text, expected_files) ==
    \A i \in DOMAIN expected_files :
        /\ Contains(bundle_text, BeginMarker(expected_files[i]))
        /\ Contains(bundle_text, EndMarker(expected_files[i]))

\* expected_files of translate_cfg_bundle: the names of the markers of the
\* bundle it is given
RECURSIVE MarkerNames(_)
MarkerNames(lines) ==
    IF lines = <<>> THEN <<>>
    ELSE (IF FileMarkerName(Head(lines)) # None
          THEN <<FileMarkerName(Head(lines))>> ELSE <<>>)
         \o MarkerNames(Tail(lines))

ExpectedFiles(cfg_bundle_text) == MarkerNames(SplitLines(cfg_bundle_text))

\* [k for k in in_keys if k not in out_keys]
MissingKeys(in_keys, out_keys) ==
    SelectSeq(in_keys, LAMBDA k : k \notin Range(out_keys))

\* _validate_same_keys with the [:50] of its lists forgotten
validate_same_keys_uncapped(input_text, output_text) ==
    LET in_keys  == extract_cfg_keys(input_text)
        out_keys == extract_cfg_keys(output_text)
        missing  == MissingKeys(in_keys, out_keys)
    IN  IF Len(out_keys) < Len(in_keys)
        THEN [ok |-> FALSE, label |-> "first50", missing |-> missing]
        ELSE IF missing # <<>>
        THEN [ok |-> FALSE, label |-> "missing", missing |-> missing]
        ELSE [ok |-> TRUE, label |-> "OK", missing |-> <<>>]

\* _validate_same_keys(input_text, output_text) -> (ok, msg)
validate_same_keys(input_text, output_text) ==
    LET in_keys  == extract_cfg_keys(input_text)
        out_keys == extract_cfg_keys(output_text)
        missing  == MissingKeys(in_keys, out_keys)
    IN  IF Len(out_keys) < Len(in_keys)
        THEN [ok |-> FALSE, label |-> "first50", missing |-> Take(missing, KeyListCap)]
        ELSE IF missing # <<>>
        THEN [ok |-> FALSE, label |-> "missing", missing |-> Take(missing, KeyListCap)]
        ELSE [ok |-> TRUE, label |-> "OK", missing |-> <<>>]

(***************************************************************************)
(* translate_cfg_bundle: what one answer of the service leads to           *)
(***************************************************************************)
BaseInstructions == [notice |-> "none"]
NoErr == [kind |-> "none"]
NoReply == [verdict |-> "none", out |-> <<>>, bundle |-> <<>>]

\* the checks of one attempt with the marker check placed first
GeminiVerdictMarkersFirst(cfg_bundle_text, out_text) ==
    LET v == validate_same_keys(cfg_bundle_text, out_text)
        expected_files == ExpectedFiles(cfg_bundle_text)
    IN  IF expected_files # <<>> /\ ~has_all_markers(out_text, expected_files)
        THEN [verdict |-> "MarkerDamage",
              err     |-> [kind |-> "markers"],
              notice  |-> [notice |-> "markers"]]
        ELSE IF ~v.ok
        THEN [verdict |-> "KeyMismatch",
              err     |-> [kind |-> "keys", label |-> v.label, missing |-> v.missing],
              notice  |-> [notice |-> "keys", label |-> v.label, missing |-> v.missing]]
        ELSE [verdict |-> "Accepted", err |-> NoErr, notice |-> BaseInstructions]

\* factorio_gemini_translate.py: the checks of one attempt, in code order
GeminiVerdict(cfg_bundle_text, out_text) ==
    LET v == validate_same_keys(cfg_bundle_text, out_text)
        expected_files == ExpectedFiles(cfg_bundle_text)
    IN  IF ~v.ok
        THEN [verdict |-> "KeyMismatch",
              err     |-> [kind |-> "keys", label |-> v.label, missing |-> v.missing],
              notice  |-> [notice |-> "keys", label |-> v.label, missing |-> v.missing]]
        ELSE IF expected_files # <<>> /\ ~has_all_markers(out_text, expected_files)
        THEN [verdict |-> "MarkerDamage",
              err     |-> [kind |-> "markers"],
              notice  |-> [notice |-> "markers"]]
        ELSE [verdict |-> "Accepted", err |-> NoErr, notice |-> BaseInstructions]

\* factorio_gpt_translate.py: the check of one attempt
GptVerdict(cfg_bundle_text, out_text) ==
    LET v == validate_same_keys(cfg_bundle_text, out_text)
    IN  IF v.ok
        THEN [verdict |-> "Accepted", err |-> NoErr, notice |-> BaseInstructions]
        ELSE [verdict |-> "KeyMismatch",
              err     |-> [kind |-> "keys", label |-> v.label, missing |-> v.missing],
              notice  |-> [notice |-> "keys", label |-> v.label, missing |-> v.missing]]

\* out_text of an attempt: Gemini cleans the raw text, the OpenAI text is taken as is
CleanedOutput(be, raw) == IF be = "gemini" THEN strip_code_fences(raw) ELSE raw

Verdict(be, cfg_bundle_text, out_text) ==
    IF be = "gemini" THEN GeminiVerdict(cfg_bundle_text, out_text)
    ELSE GptVerdict(cfg_bundle_text, out_text)

\* ("429" in last_err or "RESOURCE_EXHAUSTED" in last_err)
IsRetryable429(last_err) ==
    Contains(last_err, <<"4", "2", "9">>) \/ Contains(last_err, <<"R", "E", "S", "O", "U", "R", "C", "E", "_", "E", "X", "H", "A", "U", "S", "T", "E", "D">>)


(***************************************************************************)
(* The translation service: what generate_content / responses.create can   *)
(* answer to a bundle                                                      *)
(***************************************************************************)
\* the faithful answer: every value "v" translated to "V", all else kept
Translated(text) == [i \in DOMAIN text |-> IF text[i] = "v" THEN "V" ELSE text[i]]

\* a line "key=value" that is not a comment
IsPlainKeyLine(line) == HasChar(line, "=") /\ ~StartsWith(LStrip(line, WS), <<";">>)

\* the answers of the service to one request: the faithful one, the faithful
\* one in a code fence, damaged ones (END markers lost, END markers
\* indented, key lines lost, a key renamed, END markers and key lines lost)
\* and the faithful one followed by a file b of the service's own
Responses(cfg_bundle_text) ==
    LET good == Translated(cfg_bundle_text)
        ls   == FileLines(good)
        noEnd == SelectSeq(ls, LAMBDA l : ~IsEndMarkerLine(l))
    IN  { good,
          Fence \o <<NL>> \o good \o Fence \o <<NL>>,
          TextOf(noEnd),
          TextOf([i \in DOMAIN ls |->
                    IF IsEndMarkerLine(ls[i]) THEN <<" ">> \o ls[i] ELSE ls[i]]),
          TextOf(SelectSeq(ls, LAMBDA l : ~IsPlainKeyLine(l))),
          [i \in DOMAIN good |-> IF good[i] = "k" THEN "q" ELSE good[i]],
          TextOf(SelectSeq(noEnd, LAMBDA l : ~IsPlainKeyLine(l))),
          good \o join_cfg_files(<< <<<<"b">>, <<"k", "=", "V", NL>>>> >>) }

\* str(e) of the exceptions the service call can raise
ServiceErrors == { <<"4", "2", "9", " ", "R", "E", "S", "O", "U", "R", "C", "E", "_", "E", "X", "H", "A", "U", "S", "T", "E", "D">>, <<"5", "0", "0", " ", "I", "N", "T", "E", "R", "N", "A", "L">> }

(***************************************************************************)
(* translate_mod_locales_inplace                                           *)
(***************************************************************************)
\* a value of max_chars_single_call below the size of every bundle: with it
\* the texts of the model take the file-by-file branch
SmallCharBudget == 0

\* the locale directories the run starts from: no file, one file, one file
\* whose key holds the digits 429, two files
DiskPool ==
    { <<>>,
      << <<<<"a">>, <<"k", "=", "v", "\n">>>> >>,
      << <<<<"a">>, <<"k", "4", "2", "9", "=", "v", "\n">>>> >>,
      << <<<<"a">>, <<"[", "s", "]", "\n", "k", "=", "v", "\n">>>>, <<<<"b">>, <<"j", "=", "v", "\n">>>> >>,
      << <<<<"a">>, <<"k", "=", "v", "\n">>>>, <<<<"b">>, <<"k", "=", "v", "\n">>>> >> }

\* load_cfg_files_from_dir(dst_dir): the directory as a dict, names sorted
load_cfg_files_from_dir(dir) == dir

\* f.write(text if text.endswith("\n") else text + "\n")
WrittenText(text) == IF EndsWith(text, <<NL>>) THEN text ELSE text \o <<NL>>

\* write_cfg_files_to_dir(dst_dir, files): the directory afterwards
RECURSIVE write_cfg_files_to_dir(_, _)
write_cfg_files_to_dir(dir, fs) ==
    IF fs = <<>> THEN dir
    ELSE write_cfg_files_to_dir(DictSet(dir, fs[1][1], WrittenText(fs[1][2])), Tail(fs))

\* list(files.keys())
KeyList(d) == [i \in DOMAIN d |-> d[i][1]]

\* the record of one write: the file, its text, the payload it was cut from,
\* the bundle of the call and the names that call expected
RECURSIVE WriteRecords(_, _, _, _)
WriteRecords(fs, out, cfg_bundle_text, expected) ==
    IF fs = <<>> THEN <<>>
    ELSE << [name |-> fs[1][1], text |-> WrittenText(fs[1][2]), payload |-> out,
             bundle |-> cfg_bundle_text, expected |-> expected] >>
         \o WriteRecords(Tail(fs), out, cfg_bundle_text, expected)


\* repr() of a str without quote or backslash characters
ReprStr(x) == <<"'">> \o x \o <<"'">>

\* repr() of a (section, key) tuple
ReprPair(p) == <<"(">> \o ReprStr(p[1]) \o <<",", " ">> \o ReprStr(p[2]) \o <<")">>

\* the elements of the repr() of a list, ", " between them
RECURSIVE ReprItems(_)
ReprItems(ps) ==
    IF ps = <<>> THEN <<>>
    ELSE ReprPair(Head(ps)) \o (IF Tail(ps) = <<>> THEN <<>> ELSE <<",", " ">>)
         \o ReprItems(Tail(ps))

\* f"{missing}" for a list of (section, key) tuples
ReprList(ps) == <<"[">> \o ReprItems(ps) \o <<"]">>

\* The fixed phrases of the messages are Russian; the model writes each as a
\* Latin tag, which like the phrase holds no digit and no word of a quota
\* error.
\* msg of _validate_same_keys / last_err of a marker rejection
DiagnosticText(err) ==
    IF err.kind = "keys"
    THEN (IF err.label = "first50" THEN <<"m", "i", "s", "s", "i", "n", "g", " ", "k", "e", "y", "s", " ", "(", "f", "i", "r", "s", "t", " ", "5", "0", ")", ":", " ">> ELSE <<"m", "i", "s", "s", "i", "n", "g", " ", "k", "e", "y", "s", ":", " ">>) \o ReprList(err.missing)
    ELSE IF err.kind = "markers" THEN <<"F", "I", "L", "E", "/", "E", "N", "D", " ", "F", "I", "L", "E", " ", "m", "a", "r", "k", "e", "r", "s", " ", "a", "r", "e", " ", "m", "i", "s", "s", "i", "n", "g", " ", "o", "r", " ", "c", "h", "a", "n", "g", "e", "d", ".">>
    ELSE IF err.kind = "exception" THEN err.text
    ELSE <<"N", "o", "n", "e">>

\* str(e) of RuntimeError(f"... Последняя ошибка: {last_err}")
RetriesExhaustedText(err) == <<"n", "o", " ", "c", "o", "r", "r", "e", "c", "t", " ", "t", "r", "a", "n", "s", "l", "a", "t", "i", "o", "n", " ", "a", "f", "t", "e", "r", " ", "t", "h", "e", " ", "r", "e", "t", "r", "i", "e", "s", ".", " ", "L", "a", "s", "t", " ", "e", "r", "r", "o", "r", ":", " ">> \o DiagnosticText(err)

\* files = load_cfg_files_from_dir(dst_dir); bundle = _join_cfg_files(files);
\* the choice between one call and file-by-file calls; entry into
\* translate_cfg_bundle for the first call
StartTranslate ==
    /\ tpc = "start"
    /\ loaded' = load_cfg_files_from_dir(disk)
    /\ IF loaded' = <<>>
       THEN /\ tpc' = "done"
            /\ UNCHANGED <<fileIdx, bundle>>
       ELSE /\ tpc' = "calling"
            /\ IF Len(join_cfg_files(loaded')) <= maxChars
               THEN /\ fileIdx' = 0
                    /\ bundle' = join_cfg_files(loaded')
               ELSE /\ fileIdx' = 1
                    /\ bundle' = join_cfg_files(<<loaded'[1]>>)
    /\ attempt' = 0
    /\ baseSystem' = BaseInstructions
    /\ lastErr' = NoErr
    /\ rejects' = 0
    /\ invocations' = invocations + 1
    /\ writes' = <<>>
    /\ UNCHANGED <<backend, maxChars, disk, disk0, lastReply, logCount, calls,
                   raised, mpc, quotaAttempt>>
    /\ UNCHANGED <<mergeVars, bundleVars, validateVars, rateVars>>

\* the names the caller expects of the call in progress
CallerExpected == IF fileIdx = 0 THEN KeyList(loaded) ELSE <<loaded[fileIdx][1]>>

\* the caller's checks of a returned payload, TRUE when it goes on to write
CallerAccepts(out) ==
    LET translated_files == split_cfg_files(out)
    IN  /\ backend = "gemini" => has_all_markers(out, CallerExpected)
        /\ IF fileIdx = 0
           THEN translated_files # <<>> /\ DictKeys(translated_files) = DictKeys(loaded)
           ELSE loaded[fileIdx][1] \in DictKeys(translated_files)

\* a caller that writes every file the returned payload holds
FilesToWriteAllReturned(out) == split_cfg_files(out)

\* the files the caller writes from a returned payload
FilesToWrite(out) ==
    LET translated_files == split_cfg_files(out)
    IN  IF fileIdx = 0 THEN translated_files
        ELSE << <<loaded[fileIdx][1], DictGet(translated_files, loaded[fileIdx][1])>> >>

\* str(e) of the RuntimeError the caller raises on a payload it cannot use
CallerErrorText(out) ==
    IF fileIdx = 0 THEN <<"t", "h", "e", " ", "a", "n", "s", "w", "e", "r", " ", "h", "a", "s", " ", "n", "o", " ", "c", "o", "r", "r", "e", "c", "t", " ", "F", "I", "L", "E", "/", "E", "N", "D", " ", "F", "I", "L", "E", " ", "m", "a", "r", "k", "e", "r", "s", ".">>
    ELSE <<"f", "i", "l", "e", " ">> \o loaded[fileIdx][1] \o
         (IF backend = "gemini" /\ ~has_all_markers(out, CallerExpected)
          THEN <<":", " ", "t", "h", "e", " ", "m", "o", "d", "e", "l", " ", "b", "r", "o", "k", "e", " ", "t", "h", "e", " ", "F", "I", "L", "E", "/", "E", "N", "D", " ", "F", "I", "L", "E", " ", "m", "a", "r", "k", "e", "r", "s", ".">> ELSE <<" ", "n", "o", "t", " ", "f", "o", "u", "n", "d", " ", "i", "n", " ", "t", "h", "e", " ", "a", "n", "s", "w", "e", "r", ".">>)

\* a rejection that leaves the instructions of the next call as they were
AttemptRejectedWithoutNotice(v) ==
    /\ lastErr' = v.err
    /\ baseSystem' = baseSystem
    /\ rejects' = rejects + 1
    /\ IF attempt < max_retries
       THEN attempt' = attempt + 1 /\ tpc' = "calling" /\ raised' = raised
       ELSE attempt' = attempt /\ tpc' = "failed"
            /\ raised' = RetriesExhaustedText(v.err)
    /\ UNCHANGED <<disk, writes, logCount, fileIdx, bundle>>

\* the attempt is rejected: the error and the repair notice are kept and the
\* loop goes on, or after the last attempt RuntimeError leaves the function
AttemptRejected(v) ==
    /\ lastErr' = v.err
    /\ baseSystem' = v.notice
    /\ rejects' = rejects + 1
    /\ IF attempt < max_retries
       THEN attempt' = attempt + 1 /\ tpc' = "calling" /\ raised' = raised
       ELSE attempt' = attempt /\ tpc' = "failed"
            /\ raised' = RetriesExhaustedText(v.err)
    /\ UNCHANGED <<disk, writes, logCount, fileIdx, bundle>>

\* the caller with the log entry appended after each written file
PayloadReturnedLoggingEachFile(out) ==
    IF ~CallerAccepts(out)
    THEN /\ tpc' = "failed"
         /\ raised' = CallerErrorText(out)
         /\ UNCHANGED <<disk, writes, logCount, fileIdx, bundle, attempt,
                        baseSystem, lastErr, rejects>>
    ELSE /\ raised' = raised
         /\ disk' = write_cfg_files_to_dir(disk, FilesToWrite(out))
         /\ writes' = writes \o WriteRecords(FilesToWrite(out), out, bundle, CallerExpected)
         /\ logCount' = IF backend = "gemini" THEN logCount + 1 ELSE logCount
         /\ IF fileIdx # 0 /\ fileIdx < Len(loaded)
            THEN /\ fileIdx' = fileIdx + 1
                 /\ bundle' = join_cfg_files(<<loaded[fileIdx + 1]>>)
                 /\ attempt' = 0
                 /\ baseSystem' = BaseInstructions
                 /\ lastErr' = NoErr
                 /\ rejects' = 0
                 /\ tpc' = "calling"
            ELSE /\ tpc' = "done"
                 /\ UNCHANGED <<fileIdx, bundle, attempt, baseSystem, lastErr, rejects>>

\* translate_cfg_bundle returned out: the caller's checks raise, or the files
\* are written and the run ends or goes on to the next file
PayloadReturned(out) ==
    IF ~CallerAccepts(out)
    THEN /\ tpc' = "failed"
         /\ raised' = CallerErrorText(out)
         /\ UNCHANGED <<disk, writes, logCount, fileIdx, bundle, attempt,
                        baseSystem, lastErr, rejects>>
    ELSE /\ raised' = raised
         /\ disk' = write_cfg_files_to_dir(disk, FilesToWrite(out))
         /\ writes' = writes \o WriteRecords(FilesToWrite(out), out, bundle, CallerExpected)
         /\ IF fileIdx # 0 /\ fileIdx < Len(loaded)
            THEN /\ fileIdx' = fileIdx + 1
                 /\ bundle' = join_cfg_files(<<loaded[fileIdx + 1]>>)
                 /\ attempt' = 0
                 /\ baseSystem' = BaseInstructions
                 /\ lastErr' = NoErr
                 /\ rejects' = 0
                 /\ tpc' = "calling"
                 /\ UNCHANGED logCount
            ELSE /\ tpc' = "done"
                 /\ logCount' = IF backend = "gemini" THEN logCount + 1 ELSE logCount
                 /\ UNCHANGED <<fileIdx, bundle, attempt, baseSystem, lastErr, rejects>>

\* one attempt of translate_cfg_bundle to which the service answers a text,
\* with everything the code does up to the next request or the end of the run
ServiceReplies ==
    /\ tpc = "calling"
    /\ \E raw \in Responses(bundle) :
        LET out_text == CleanedOutput(backend, raw)
            v        == Verdict(backend, bundle, out_text)
        IN  /\ calls' = calls + 1
            /\ lastReply' = [verdict |-> v.verdict, out |-> out_text, bundle |-> bundle]
            /\ IF v.verdict = "Accepted"
               THEN PayloadReturned(out_text)
               ELSE AttemptRejected(v)
    /\ UNCHANGED <<backend, maxChars, disk0, loaded, mpc, quotaAttempt, invocations>>
    /\ UNCHANGED <<mergeVars, bundleVars, validateVars, rateVars>>

\* one attempt in which the service call raises: Gemini retries a 429 while
\* attempts remain and re-raises otherwise; the OpenAI code catches nothing
ServiceRaises ==
    /\ tpc = "calling"
    /\ \E e \in ServiceErrors :
        /\ calls' = calls + 1
        /\ lastErr' = IF backend = "gemini" THEN [kind |-> "exception", text |-> e]
                      ELSE lastErr
        /\ IF backend = "gemini" /\ IsRetryable429(e) /\ attempt < max_retries
           THEN attempt' = attempt + 1 /\ tpc' = "calling" /\ raised' = raised
           ELSE attempt' = attempt /\ tpc' = "failed" /\ raised' = e
    /\ lastReply' = NoReply
    /\ UNCHANGED <<backend, maxChars, disk, disk0, loaded, fileIdx, bundle,
                   baseSystem, writes, logCount, rejects, mpc, quotaAttempt,
                   invocations>>
    /\ UNCHANGED <<mergeVars, bundleVars, validateVars, rateVars>>

XlateInit ==
    /\ backend \in {"gemini", "gpt"}
    /\ maxChars \in {SmallCharBudget, max_chars_single_call}
    /\ disk \in DiskPool
    /\ disk0 = disk
    /\ loaded = <<>>
    /\ tpc = "start"
    /\ fileIdx = 0
    /\ bundle = <<>>
    /\ attempt = 0
    /\ baseSystem = BaseInstructions
    /\ lastErr = NoErr
    /\ lastReply = NoReply
    /\ writes = <<>>
    /\ logCount = 0
    /\ calls = 0
    /\ rejects = 0
    /\ raised = None
    /\ mpc = "direct"
    /\ quotaAttempt = 0
    /\ invocations = 0
    /\ MergeIdle
    /\ BundleIdle
    /\ ValidateIdle
    /\ RateIdle

XlateNext == StartTranslate \/ ServiceReplies \/ ServiceRaises

XlateSpec == XlateInit /\ [][XlateNext]_vars

\* text has a line that is character for character the marker
HasLine(text, marker) == \E l \in Range(FileLines(text)) : l = marker

\* every expected name has its exact BEGIN line and its exact END line in text
HasExactMarkerLines(text, expected) ==
    \A i \in DOMAIN expected :
        /\ HasLine(text, BeginMarker(expected[i]))
        /\ HasLine(text, EndMarker(expected[i]))

(***************************************************************************)
(* C8  Sole gate: in both backends every file written to the destination   *)
(* directory comes from a returned payload that holds the exact BEGIN and  *)
(* END marker line of every file the call expected and that passes the key *)
(* preservation check against the bundle of that call.                     *)
(***************************************************************************)
C8_SoleGate ==
    \A i \in DOMAIN writes :
        /\ HasExactMarkerLines(writes[i].payload, writes[i].expected)
        /\ validate_same_keys(writes[i].bundle, writes[i].payload).ok

(***************************************************************************)
(* C9  No partial writes: when the run of translate_mod_locales_inplace    *)
(* ends in failure, no destination file has been modified, also when the   *)
(* files are sent one by one.                                              *)
(***************************************************************************)
C9_NoPartialWrites == tpc = "failed" => disk = disk0

(***************************************************************************)
(* C10  Validator detects marker damage: whenever the payload the Gemini   *)
(* validator examines lacks, for some expected name, the exact BEGIN line  *)
(* or the exact END line, the attempt is rejected as marker damage.        *)
(***************************************************************************)
C10_MarkerDamageDetected ==
    (backend = "gemini" /\ lastReply.verdict # "none"
       /\ ~HasExactMarkerLines(lastReply.out, ExpectedFiles(lastReply.bundle)))
    => lastReply.verdict = "MarkerDamage"


(***************************************************************************)
(* _validate_same_keys applied to an original and a returned payload       *)
(***************************************************************************)
\* the lines of the payloads: a section header and two keys
ValLinePool == { <<"[", "A", "]">>, <<"k", "1", "=", "v">>, <<"k", "2", "=", "v">> }

DigitChars == <<"0", "1", "2", "3", "4", "5", "6", "7", "8", "9">>

\* the name of the i-th key of a long payload, i < 100
KeyName(i) == <<"k", DigitChars[(i \div 10) + 1], DigitChars[(i % 10) + 1]>>

\* the key lines of the keys lo..hi, all keys different
RECURSIVE KeyLinesText(_, _)
KeyLinesText(lo, hi) ==
    IF lo > hi THEN <<>>
    ELSE IF lo = hi THEN KeyName(lo) \o <<"=", "v", NL>>
    ELSE LET mid == (lo + hi) \div 2
         IN  KeyLinesText(lo, mid) \o KeyLinesText(mid + 1, hi)

\* a payload of n key lines, all keys different
ManyKeysText(n) == KeyLinesText(1, n)

ValTexts == {TextOf(ls) : ls \in SeqsUpTo(ValLinePool, MaxValLines)}

\* the original payloads: the short ones and one with more keys than the
\* diagnostic lists
ValInputs == ValTexts \cup {ManyKeysText(KeyListCap + 1)}

\* the returned payloads: the short ones and the long one cut to its first key
ValOutputs == ValTexts \cup {ManyKeysText(1)}

\* ok, msg = _validate_same_keys(input_text, output_text)
ValidateSameKeys ==
    /\ vpc = "start"
    /\ vres' = validate_same_keys(vin, vout)
    /\ vpc' = "done"
    /\ UNCHANGED <<vin, vout>>
    /\ UNCHANGED <<mergeVars, bundleVars, xlateVars, rateVars>>

ValidateInit ==
    /\ vin \in ValInputs
    /\ vout \in ValOutputs
    /\ vres = None
    /\ vpc = "start"
    /\ MergeIdle
    /\ BundleIdle
    /\ XlateIdle
    /\ RateIdle

ValidateNext == ValidateSameKeys

ValidateSpec == ValidateInit /\ [][ValidateNext]_vars

\* the (section, key) pairs of the original absent from the returned payload
AbsentPairs == Range(extract_cfg_keys(vin)) \ Range(extract_cfg_keys(vout))

\* a is b with elements left out
RECURSIVE IsSubseq(_, _)
IsSubseq(a, b) ==
    IF a = <<>> THEN TRUE
    ELSE IF b = <<>> THEN FALSE
    ELSE IF Head(a) = Head(b) THEN IsSubseq(Tail(a), Tail(b))
    ELSE IsSubseq(a, Tail(b))

(***************************************************************************)
(* C11  Key preservation acceptance: the key check passes whenever every   *)
(* (section, key) pair of the original occurs at least once in the         *)
(* returned payload, whatever the order and the number of its key lines.   *)
(***************************************************************************)
C11_KeyAcceptance ==
    (vpc = "done" /\ AbsentPairs = {}) => vres.ok

(***************************************************************************)
(* C12  Validator detects drop: whenever a (section, key) pair of the      *)
(* original is absent from the returned payload the check rejects, and the *)
(* diagnostic lists absent pairs only, in original order, at least one and *)
(* at most 50.                                                             *)
(***************************************************************************)
C12_DropDetected ==
    (vpc = "done" /\ AbsentPairs # {}) =>
        /\ ~vres.ok
        /\ Len(vres.missing) >= 1
        /\ Len(vres.missing) <= KeyListCap
        /\ Range(vres.missing) \subseteq AbsentPairs
        /\ IsSubseq(vres.missing, extract_cfg_keys(vin))

\* more pairs are absent than the diagnostic lists
C12_Witness ==
    /\ vpc = "done"
    /\ Cardinality(AbsentPairs) > KeyListCap
    /\ ~vres.ok
    /\ Len(vres.missing) = KeyListCap


\* the verdicts of a structural rejection
Rejections == {"KeyMismatch", "MarkerDamage"}

\* the step is an attempt that the validator rejected
RejectionStep == calls' = calls + 1 /\ lastReply'.verdict \in Rejections

\* the instructions carry the correction notice of the rejection in reply
NoticeNamesProblem(instructions, reply, err) ==
    IF reply.verdict = "KeyMismatch"
    THEN /\ instructions.notice = "keys"
         /\ err.kind = "keys"
         /\ instructions.missing = err.missing
         /\ Range(instructions.missing) \subseteq
                Range(extract_cfg_keys(reply.bundle)) \ Range(extract_cfg_keys(reply.out))
    ELSE instructions.notice = "markers" /\ err.kind = "markers"

(***************************************************************************)
(* C13  Structural repair: after every structural rejection the next call  *)
(* carries the identical original payload and instructions with a          *)
(* correction notice naming the problem just detected; after               *)
(* max_retries+1 rejected attempts the job fails with the last diagnostic, *)
(* and after the failure no further call is made.                          *)
(***************************************************************************)
C13_StructuralRepair ==
    [][ /\ RejectionStep =>
            /\ tpc' \in {"calling", "failed"}
            /\ tpc' = "calling" =>
                /\ bundle' = bundle
                /\ NoticeNamesProblem(baseSystem', lastReply', lastErr')
            /\ rejects' = max_retries + 1 => tpc' = "failed"
            /\ tpc' = "failed" =>
                raised' = RetriesExhaustedText(lastErr')
        /\ tpc = "failed" => calls' = calls ]_vars

\* three attempts of one call were rejected and the job has failed
C13_Witness ==
    /\ tpc = "failed"
    /\ rejects = max_retries + 1
    /\ lastReply.verdict \in Rejections
    /\ baseSystem.notice # "none"


(***************************************************************************)
(* main_gpt.py : translate_with_gemini_menu, the loop that translates one  *)
(* mod and repeats it after a quota error                                  *)
(***************************************************************************)
QUOTA_RETRIES == 10

UpperChars == <<"A", "B", "C", "D", "E", "F", "G", "H", "I", "J", "K", "L", "M", "N", "O", "P", "Q", "R", "S", "T", "U", "V", "W", "X", "Y", "Z">>
LowerChars == <<"a", "b", "c", "d", "e", "f", "g", "h", "i", "j", "k", "l", "m", "n", "o", "p", "q", "r", "s", "t", "u", "v", "w", "x", "y", "z">>

\* s.lower(), for the letters A to Z
Lower(s) ==
    [i \in DOMAIN s |->
        IF \E j \in DOMAIN UpperChars : UpperChars[j] = s[i]
        THEN LowerChars[CHOOSE j \in DOMAIN UpperChars : UpperChars[j] = s[i]]
        ELSE s[i]]

\* is_quota_error(exc), from str(exc)
is_quota_error(text) ==
    \/ Contains(text, <<"4", "2", "9">>)
    \/ Contains(Lower(text), <<"r", "e", "s", "o", "u", "r", "c", "e", "_", "e", "x", "h", "a", "u", "s", "t", "e", "d">>)
    \/ Contains(Lower(text), <<"q", "u", "o", "t", "a", " ", "e", "x", "c", "e", "e", "d", "e", "d">>)
    \/ Contains(Lower(text), <<"g", "e", "n", "e", "r", "a", "t", "e", "_", "c", "o", "n", "t", "e", "n", "t", "_", "f", "r", "e", "e", "_", "t", "i", "e", "r", "_", "r", "e", "q", "u", "e", "s", "t", "s">>)

\* the handler with the count of the quota waits forgotten
MenuHandlesExceptionUncounted ==
    /\ mpc = "loop"
    /\ tpc = "failed"
    /\ IF is_quota_error(raised)
       THEN mpc' = "loop" /\ tpc' = "start" /\ disk0' = disk
       ELSE mpc' = "failed" /\ UNCHANGED <<tpc, disk0>>
    /\ UNCHANGED <<backend, maxChars, disk, loaded, fileIdx, bundle, attempt,
                   baseSystem, lastErr, lastReply, writes, logCount, calls,
                   rejects, raised, invocations, quotaAttempt>>
    /\ UNCHANGED <<mergeVars, bundleVars, validateVars, rateVars>>

\* except Exception as e: after translate_one raised, the loop waits and
\* repeats the mod on a quota error while attempt <= QUOTA_RETRIES, and
\* gives the mod up otherwise
MenuHandlesException ==
    /\ mpc = "loop"
    /\ tpc = "failed"
    /\ IF is_quota_error(raised)
       THEN /\ quotaAttempt' = quotaAttempt + 1
            /\ IF quotaAttempt' > QUOTA_RETRIES
               THEN mpc' = "failed" /\ UNCHANGED <<tpc, disk0>>
               ELSE mpc' = "loop" /\ tpc' = "start" /\ disk0' = disk
       ELSE /\ mpc' = "failed"
            /\ UNCHANGED <<quotaAttempt, tpc, disk0>>
    /\ UNCHANGED <<backend, maxChars, disk, loaded, fileIdx, bundle, attempt,
                   baseSystem, lastErr, lastReply, writes, logCount, calls,
                   rejects, raised, invocations>>
    /\ UNCHANGED <<mergeVars, bundleVars, validateVars, rateVars>>

\* ok = translate_one(...) returned: the loop of the mod ends
MenuTranslated ==
    /\ mpc = "loop"
    /\ tpc = "done"
    /\ mpc' = "ok"
    /\ UNCHANGED <<backend, maxChars, disk, disk0, loaded, tpc, fileIdx, bundle,
                   attempt, baseSystem, lastErr, lastReply, writes, logCount,
                   calls, rejects, raised, quotaAttempt, invocations>>
    /\ UNCHANGED <<mergeVars, bundleVars, validateVars, rateVars>>

\* translate_one passes no max_chars_single_call: the default applies
MenuInit ==
    /\ backend = "gemini"
    /\ maxChars = max_chars_single_call
    /\ disk \in DiskPool
    /\ disk0 = disk
    /\ loaded = <<>>
    /\ tpc = "start"
    /\ fileIdx = 0
    /\ bundle = <<>>
    /\ attempt = 0
    /\ baseSystem = BaseInstructions
    /\ lastErr = NoErr
    /\ lastReply = NoReply
    /\ writes = <<>>
    /\ logCount = 0
    /\ calls = 0
    /\ rejects = 0
    /\ raised = None
    /\ mpc = "loop"
    /\ quotaAttempt = 0
    /\ invocations = 0
    /\ MergeIdle
    /\ BundleIdle
    /\ ValidateIdle
    /\ RateIdle

MenuNext ==
    \/ StartTranslate
    \/ ServiceReplies
    \/ ServiceRaises
    \/ MenuHandlesException
    \/ MenuTranslated

MenuSpec == MenuInit /\ [][MenuNext]_vars


\* translate_cfg_bundle gave up after a rejected last attempt
StructuralRepairExhausted == tpc = "failed" /\ lastReply.verdict \in Rejections

(***************************************************************************)
(* C14  Two-tier budgets: a quota failure does not count against the       *)
(* structural-repair budget, so a job that fails with                      *)
(* StructuralRepairExhausted has had its full max_retries+1 attempts       *)
(* rejected; the job fails on quota exactly when the quota-retry budget is *)
(* exceeded.                                                               *)
(***************************************************************************)
C14_TwoTierBudgets ==
    /\ StructuralRepairExhausted => rejects = max_retries + 1
    /\ (mpc = "failed" /\ is_quota_error(raised)) => quotaAttempt > QUOTA_RETRIES
    /\ quotaAttempt > QUOTA_RETRIES => mpc = "failed"


\* the processing of the mod has ended in success or in failure
MenuEnded == mpc \in {"ok", "failed"}

\* some step of the loop or of the translation it runs can be taken
MenuCanStep ==
    \/ tpc \in {"start", "calling"}
    \/ mpc = "loop" /\ tpc \in {"failed", "done"}

\* what every step adds to: the calls made, the invocations started, the
\* quota waits counted and the end of the loop
MenuProgress ==
    calls + invocations + quotaAttempt + (IF MenuEnded THEN 1 ELSE 0)

(***************************************************************************)
(* C15  Termination: whatever the service does, the processing of one mod  *)
(* ends in success or failure after a bounded number of calls: at most     *)
(* max_retries+1 calls per translate_cfg_bundle invocation and at most     *)
(* QUOTA_RETRIES+1 invocations of the mod's translation.  Stated as: the   *)
(* counters stay within these bounds, every step adds to their sum, and    *)
(* only an ended run has no step left.                                     *)
(***************************************************************************)
C15_Termination ==
    /\ [](/\ attempt <= max_retries
          /\ invocations <= QUOTA_RETRIES + 1
          /\ quotaAttempt <= QUOTA_RETRIES + 1
          /\ calls <= invocations * (max_retries + 1)
                        * (IF fileIdx = 0 THEN 1 ELSE Len(loaded))
          /\ ~MenuEnded => MenuCanStep)
    /\ [][MenuProgress' > MenuProgress]_vars

\* the longest run: every invocation used all its calls and ended on a quota
\* error, until the loop gave the mod up
C15_Witness ==
    /\ mpc = "failed"
    /\ invocations = QUOTA_RETRIES + 1
    /\ calls = (QUOTA_RETRIES + 1) * (max_retries + 1)


\* the names of the files the running call has written
WrittenNames == {writes[i].name : i \in DOMAIN writes}

(***************************************************************************)
(* C16  Completion log: one call of the Gemini                             *)
(* translate_mod_locales_inplace appends at most one log entry, only after *)
(* every file of the mod has been written, and none when the call fails or *)
(* a file of the mod was not translated.                                   *)
(***************************************************************************)
C16_CompletionLog ==
    backend = "gemini" =>
        /\ logCount <= 1
        /\ logCount = 1 => tpc = "done" /\ DictKeys(loaded) \subseteq WrittenNames
        /\ tpc = "failed" => logCount = 0
        /\ ~(DictKeys(loaded) \subseteq WrittenNames) => logCount = 0

\* two files were sent one by one, both were written and the entry appended
C16_Witness ==
    /\ backend = "gemini"
    /\ fileIdx = 2
    /\ tpc = "done"
    /\ logCount = 1
    /\ Len(writes) = 2


(***************************************************************************)
(* factorio_gemini_translate.py : _rate_limit_wait, the gate every call of *)
(* translate_cfg_bundle passes.  Time is counted in whole seconds and      *)
(* time.time() never goes back.                                            *)
(***************************************************************************)
\* _MIN_INTERVAL_SEC = 60.0 / MAX_RPM
MIN_INTERVAL_SEC(max_rpm) == 60 \div max_rpm

\* the gate with its sleep forgotten
rate_limit_wait_no_sleep(now, last_ts, max_rpm, over) == now

\* _rate_limit_wait(): the time at which it reads the clock for
\* _last_request_ts, when it was entered at time now; time.sleep(d) lasts d
\* seconds and `over` more
rate_limit_wait(now, last_ts, max_rpm, over) ==
    LET elapsed == now - last_ts
    IN  IF elapsed < MIN_INTERVAL_SEC(max_rpm)
        THEN now + (MIN_INTERVAL_SEC(max_rpm) - elapsed) + over
        ELSE now

\* what a call of translate_cfg_bundle's loop is: the first attempt, the
\* attempt after a rejection, the attempt after a caught 429
CallKinds == {"first", "repair", "retry429"}

\* the time that passes between two passes of the gate: the call itself, the
\* sleep after a 429, the work between two jobs
GapPool == {3, 12, 60}

\* one iteration of the loop up to the dispatch: _rate_limit_wait() and
\* generate_content
RateLimitedCall ==
    /\ Len(stamps) < MaxRateCalls
    /\ \E kind \in CallKinds, over \in 0..MaxOversleep :
        /\ last_request_ts' = rate_limit_wait(clock, last_request_ts, MAX_RPM, over)
        /\ clock' = last_request_ts'
        /\ stamps' = Append(stamps, last_request_ts')
        /\ kinds' = kind
    /\ UNCHANGED MAX_RPM
    /\ UNCHANGED <<mergeVars, bundleVars, xlateVars, validateVars>>

\* time passes outside the gate
TimePasses ==
    /\ \E d \in GapPool :
        /\ clock + d <= MaxClock
        /\ clock' = clock + d
    /\ UNCHANGED <<MAX_RPM, last_request_ts, stamps, kinds>>
    /\ UNCHANGED <<mergeVars, bundleVars, xlateVars, validateVars>>

\* the module as loaded: _last_request_ts = 0.0, the clock far from 0
RateInit ==
    /\ MAX_RPM \in {1, 5}
    /\ clock = StartClock
    /\ last_request_ts = 0
    /\ stamps = <<>>
    /\ kinds = "none"
    /\ MergeIdle
    /\ BundleIdle
    /\ XlateIdle
    /\ ValidateIdle

RateNext == RateLimitedCall \/ TimePasses

RateSpec == RateInit /\ [][RateNext]_vars

(***************************************************************************)
(* C17  Rate limiting: every call dispatched through translate_cfg_bundle, *)
(* of whatever kind, is dispatched at least 60/MAX_RPM seconds after the   *)
(* dispatch timestamp of the call before it; with MAX_RPM = 1 that is at   *)
(* least 60 seconds.                                                       *)
(***************************************************************************)
C17_RateLimiting ==
    \A i \in 1..(Len(stamps) - 1) :
        /\ stamps[i + 1] - stamps[i] >= MIN_INTERVAL_SEC(MAX_RPM)
        /\ MAX_RPM = 1 => stamps[i + 1] - stamps[i] >= 60

\* three calls with MAX_RPM = 1: the gate held the second back to exactly
\* 60 seconds after the first
C17_Witness ==
    /\ MAX_RPM = 1
    /\ Len(stamps) = 3
    /\ stamps[2] = stamps[1] + 60
    /\ stamps[3] > stamps[2] + 60
    /\ kinds = "repair"


(***************************************************************************)
(* C19  Error propagation: a failed call (quota or any other transport     *)
(* error) or a rejection is handled inside the retry loops while budget    *)
(* remains; the mod is given up with an error only after the               *)
(* structural-repair budget or the quota-retry budget is exhausted.        *)
(***************************************************************************)
C19_ErrorPropagation ==
    mpc = "failed" =>
        \/ StructuralRepairExhausted /\ attempt = max_retries
        \/ quotaAttempt > QUOTA_RETRIES


\* the Gemini validator has examined a payload
GeminiExamined == backend = "gemini" /\ lastReply.verdict # "none"

\* the examined payload lacks a marker of an expected file, by the code's test
ReplyLacksMarker ==
    ~has_all_markers(lastReply.out, ExpectedFiles(lastReply.bundle))

\* the examined payload drops a key of the original
ReplyDropsKey == ~validate_same_keys(lastReply.bundle, lastReply.out).ok

QuotaCaughtStep ==
    /\ calls' = calls + 1
    /\ lastReply' = NoReply
    /\ tpc' = "calling"

\* the step is the menu loop's repetition of the mod after the cooldown: the
\* translation starts again and is about to make its first call
QuotaRerunStep ==
    /\ mpc = "loop"
    /\ invocations >= 1
    /\ tpc = "start"
    /\ tpc' = "calling"

(***************************************************************************)
(* C21  Quota retry keeps the request: the call made after a quota failure *)
(* and its cooldown carries the same payload and the same instructions as  *)
(* the call that failed, any correction notice included, and the           *)
(* structural attempt number is unchanged.                                 *)
(***************************************************************************)
C21_QuotaRetryKeepsRequest ==
    [][(QuotaCaughtStep \/ QuotaRerunStep) =>
            /\ bundle' = bundle
            /\ baseSystem' = baseSystem
            /\ attempt' = attempt]_vars


(***************************************************************************)
(* C22  Exhaustion is terminal: once translate_cfg_bundle has raised after *)
(* its last attempt was rejected, the menu loop counts the mod as failed   *)
(* and makes no further call for it; the failure is never taken for a      *)
(* quota error and the mod re-run, whatever the diagnostic text holds.     *)
(***************************************************************************)
C22_ExhaustionTerminal ==
    /\ [](StructuralRepairExhausted => ~is_quota_error(raised))
    /\ [][(StructuralRepairExhausted /\ mpc = "loop") =>
            /\ mpc' = "failed"
            /\ tpc' = "failed"
            /\ calls' = calls
            /\ invocations' = invocations]_vars


\* the keys of the active key lines that the source has in section S
SrcKeysOf(S) ==
    {SrcKeyOf(SrcLines[j]) :
        j \in {n \in SrcKeyPositions(SrcLines) : SectionAt(SrcLines, n) = S}}

\* positions of the key lines of section S of the old destination whose key
\* the source does not have in S
ObsoletePositions(S) ==
    {i \in KeyLinePositions(Dst0Lines) :
        /\ SectionAt(Dst0Lines, i) = S
        /\ HasChar(LStrip(Dst0Lines[i], CommentWS), "=")
        /\ RuKeyOf(Dst0Lines[i]) \notin SrcKeysOf(S)}

\* a destination line as a tombstone: prefixed unless it starts as a comment
Tombstone(line) == IF StartsWith(line, <<";">>) THEN line ELSE <<";", " ">> \o line

\* the lines that follow position p up to the next header or the end
RECURSIVE RestOfSection(_, _)
RestOfSection(lines, p) ==
    IF p + 1 > Len(lines) \/ IsSectionHeader(lines[p + 1]) THEN <<>>
    ELSE <<lines[p + 1]>> \o RestOfSection(lines, p + 1)

\* the lines of section S of the old destination that hold no key
NonKeyLinesOf(S) ==
    {Dst0Lines[i] : i \in {n \in DOMAIN Dst0Lines :
                            /\ SectionAt(Dst0Lines, n) = S
                            /\ ~IsSectionHeader(Dst0Lines[n])
                            /\ ~HasChar(LStrip(Dst0Lines[n], CommentWS), "=")}}

\* the sections the source and the old destination both have
SharedSections == SectionNames(SrcLines) \cap SectionNames(Dst0Lines)

(***************************************************************************)
(* C23  Obsolete-key tombstoning: after a merge into an existing           *)
(* destination, for a section both files have, every key line of the old   *)
(* destination in that section whose key is no source key of the section   *)
(* is in the result exactly once, in that section, after every             *)
(* source-derived line of the section and before the next header, as the   *)
(* old line prefixed with "; " unless it already starts as a comment.      *)
(***************************************************************************)
C23_ObsoleteTombstoned ==
    FirstMergeDone =>
        \A S \in SharedSections :
            \A i \in ObsoletePositions(S) :
                LET e     == Tombstone(Dst0Lines[i])
                    where == {p \in DOMAIN DstLines : DstLines[p] = e}
                    same  == {n \in ObsoletePositions(S) :
                                    Tombstone(Dst0Lines[n]) = e}
                IN  /\ Cardinality(where) = Cardinality(same)
                    /\ \A p \in where :
                        /\ SectionAt(DstLines, p) = S
                        /\ \A l \in Range(RestOfSection(DstLines, p)) :
                              \/ l \in NonKeyLinesOf(S)
                              \/ \E n \in ObsoletePositions(S) :
                                    l = Tombstone(Dst0Lines[n])


(***************************************************************************)
(* The split of a payload as the service may return it: markers in any     *)
(* order, lines around them                                                *)
(***************************************************************************)
\* lines of a returned payload: the markers of two files and a key line
PayloadLinePool ==
    { BeginMarker(<<"a">>), EndMarker(<<"a">>),
      BeginMarker(<<"b">>), EndMarker(<<"b">>), <<"k", "=", "v">> }

PayloadTexts == {TextOf(ls) : ls \in SeqsUpTo(PayloadLinePool, MaxPayloadLines)}

SplitInit ==
    /\ files = <<>>
    /\ payload \in PayloadTexts
    /\ parts = <<>>
    /\ bpc = "joined"
    /\ MergeIdle
    /\ XlateIdle
    /\ ValidateIdle
    /\ RateIdle

SplitNext == SplitCfgFiles

SplitSpec == SplitInit /\ [][SplitNext]_vars

\* the lines of the payload
PayloadLines == SplitLines(payload)

\* positions of the BEGIN markers and of the END markers of a list of lines
BeginPositions(lines) == {i \in DOMAIN lines : FileMarkerName(lines[i]) # None}
EndPositions(lines) ==
    {i \in DOMAIN lines : FileMarkerName(lines[i]) = None /\ IsEndMarkerLine(lines[i])}

\* the name an END marker line carries
EndNameOf(line) == CHOOSE n \in BundleNames : Strip(line) = EndMarker(n)

\* the BEGIN marker at b is the last one of its name
IsLastOfName(lines, bs, b) ==
    \A c \in bs : c > b => FileMarkerName(lines[c]) # FileMarkerName(lines[b])

\* the first position after b that is in set ms, or the position after the
\* last line
FirstAfter(lines, b, ms) ==
    IF \E e \in ms : e > b
    THEN CHOOSE e \in ms : e > b /\ \A f \in ms : f > b => e <= f
    ELSE Len(lines) + 1

\* every END marker that follows a BEGIN marker carries the name of the
\* nearest BEGIN marker before it
EndsCarryOpenName(lines) ==
    LET bs == BeginPositions(lines)
    IN  \A e \in EndPositions(lines) :
            \A b \in bs :
                (b < e /\ \A c \in bs : c < e => c <= b)
                    => EndNameOf(lines[e]) = FileMarkerName(lines[b])

\* "\n".join(content).rstrip("\n") + "\n"
ContentText(lines) == RStrip(JoinNL(lines), {NL}) \o <<NL>>

(***************************************************************************)
(* C24  Split tolerance: the split returns exactly the names of the BEGIN  *)
(* markers, each with the lines between its BEGIN and the next marker, so  *)
(* every line outside a BEGIN/END pair (before the first BEGIN, between an *)
(* END and the next BEGIN, after the last END) is discarded, and a BEGIN   *)
(* that no END closes still returns the lines gathered after it.  Stated   *)
(* for payloads whose END markers carry the name of the file they close.   *)
(***************************************************************************)
C24_SplitTolerance ==
    bpc = "split" =>
        LET L  == PayloadLines
            bs == BeginPositions(L)
            ms == bs \cup EndPositions(L)
        IN  EndsCarryOpenName(L) =>
                /\ DictKeys(parts) = {FileMarkerName(L[b]) : b \in bs}
                /\ \A b \in bs :
                    IsLastOfName(L, bs, b) =>
                        DictGet(parts, FileMarkerName(L[b])) =
                            ContentText(SubSeq(L, b + 1, FirstAfter(L, b, ms) - 1))

\* a payload with a line between the END of one file and the BEGIN of the
\* next, whose last file is not closed and holds a line
C24_Witness ==
    /\ bpc = "split"
    /\ PayloadLines = << BeginMarker(<<"a">>), EndMarker(<<"a">>), <<"k", "=", "v">>,
                         BeginMarker(<<"b">>), <<"k", "=", "v">> >>
    /\ parts = << <<<<"a">>, <<NL>>>>, <<<<"b">>, <<"k", "=", "v", NL>>>> >>

\* the non-marker lines of a list of lines
PlainLines(lines) ==
    SelectSeq(lines, LAMBDA l : FileMarkerName(l) = None /\ ~IsEndMarkerLine(l))

\* positions of the END markers that carry name n
EndPositionsOf(lines, n) == {e \in EndPositions(lines) : EndNameOf(lines[e]) = n}

(***************************************************************************)
(* C25  Split pairs markers by name: the content of a file ends only at    *)
(* the END marker that carries the name of its BEGIN marker (or at the     *)
(* next BEGIN marker or the end of the payload); the lines after an END    *)
(* marker of another name still belong to the open file.                   *)
(***************************************************************************)
C25_PairsByName ==
    bpc = "split" =>
        LET L  == PayloadLines
            bs == BeginPositions(L)
        IN  \A b \in bs :
                IsLastOfName(L, bs, b) =>
                    LET n == FileMarkerName(L[b])
                    IN  ContentText(PlainLines(FileLines(DictGet(parts, n)))) =
                            ContentText(PlainLines(SubSeq(L, b + 1,
                                FirstAfter(L, b, bs \cup EndPositionsOf(L, n)) - 1)))


\* no two consecutive lines of the list are empty
NoBlankRun(lines) ==
    \A i \in 1..(Len(lines) - 1) : ~(lines[i] = <<>> /\ lines[i + 1] = <<>>)

\* the last line of the list, if it has one, is not empty
NoBlankAtEnd(lines) == lines # <<>> => lines[Len(lines)] # <<>>

\* the text ends with one line terminator and not with two
OneTerminator(text) == EndsWith(text, <<NL>>) /\ ~EndsWith(text, <<NL, NL>>)

(***************************************************************************)
(* C26  Output normalization, as claimed: the file written by a merge into *)
(* an existing destination has no two consecutive empty lines, has no      *)
(* empty line at its end and ends with exactly one line terminator.        *)
(***************************************************************************)
C26_OutputNormalized ==
    FirstMergeDone =>
        /\ NoBlankRun(DstLines)
        /\ NoBlankAtEnd(DstLines)
        /\ OneTerminator(dst)

(***************************************************************************)
(* C26  Output normalization, amended: the file written has no two         *)
(* consecutive empty lines and ends with exactly one line terminator; it   *)
(* has no empty line at its end unless the merge has no line to write, and *)
(* then the file is the line terminator alone.                             *)
(***************************************************************************)
C26_OutputNormalizedOrEmpty ==
    FirstMergeDone =>
        /\ NoBlankRun(DstLines)
        /\ OneTerminator(dst)
        /\ \/ NoBlankAtEnd(DstLines)
           \/ /\ dst = <<NL>>
              /\ MergedLines(SrcLines, Dst0Lines) = <<>>

\* a merge whose output before the normalization had a run of blank lines
\* and a blank last line, and has lines left after it
C26_Witness ==
    /\ FirstMergeDone
    /\ dst # <<NL>>
    /\ LET ru  == parse_ru_lines(Dst0Lines)
           w   == SourceWalk(SrcLines, ru)
           raw == w.out \o RuOnlySections(ru.order, ru, w.en_sections)
       IN  ~NoBlankRun(raw) /\ ~NoBlankAtEnd(raw)


\* the line lists of the sections of ru_sections, one after the other in the
\* order of the mapping
RECURSIVE ConcatSections(_, _)
ConcatSections(order, ru) ==
    IF order = <<>> THEN <<>>
    ELSE ru.lines[Head(order)] \o ConcatSections(Tail(order), ru)

(***************************************************************************)
(* C27  Section partition is lossless: the line lists of the sections that *)
(* parse_ru_lines returns for the lines of the destination, concatenated   *)
(* in the order of the returned mapping, are the lines of the destination: *)
(* no line lost, none twice, the order kept.                               *)
(***************************************************************************)
C27_PartitionLossless ==
    FirstMergeDone =>
        LET ru == parse_ru_lines(Dst0Lines)
        IN  ConcatSections(ru.order, ru) = Dst0Lines


(***************************************************************************)
(* interactive_translate.py : merge_locale_files, the copy of the merge    *)
(* that the interactive translation runs; its parse_ru_lines and its walk  *)
(* over the source are line for line those of main_gpt.py                  *)
(***************************************************************************)
\* output_lines just before the file is written: the trailing blank lines
\* are popped, nothing else is done to the blank lines
InteractiveMergedLines(src_lines, dst_lines) ==
    LET ru == parse_ru_lines(dst_lines)
        w  == SourceWalk(src_lines, ru)
    IN  PopTrailingBlank(w.out \o RuOnlySections(ru.order, ru, w.en_sections))

\* interactive_translate.merge_locale_files(src_path, dst_path): the text of
\* dst_path when it returns
interactive_merge_locale_files(srcText, dstText, exists) ==
    IF ~exists
    THEN srcText
    ELSE JoinNL(InteractiveMergedLines(FileLines(srcText), FileLines(dstText)))
            \o <<NL>>

\* the interactive merge is run on the files the run started from
InteractiveMergeLocaleFiles ==
    /\ mergesInteractive = 0
    /\ dstInteractive' = interactive_merge_locale_files(src, dst0, dst0Exists)
    /\ mergesInteractive' = 1
    /\ UNCHANGED <<src, dst, dstExists, dst0, dst0Exists, merges>>
    /\ UNCHANGED <<bundleVars, xlateVars, validateVars, rateVars>>

\* each of the two merges is run once on the same pair of files
MainMergeOnce == merges = 0 /\ MergeLocaleFiles

EquivNext == MainMergeOnce \/ InteractiveMergeLocaleFiles

EquivSpec == MergeInit /\ [][EquivNext]_vars

(***************************************************************************)
(* C28  The two merge implementations are equivalent: run on the same      *)
(* source file and the same destination state, the merge of                *)
(* interactive_translate.py and the merge of main_gpt.py write the same    *)
(* destination text.                                                       *)
(***************************************************************************)
C28_MergesEquivalent ==
    (merges = 1 /\ mergesInteractive = 1) => dstInteractive = dst


\* the greatest element of a non-empty set of positions
MaxOf(ps) == CHOOSE p \in ps : \A q \in ps : q <= p

\* positions of the key lines (active or tombstoned) of key K in section S
KeyPositionsOf(lines, S, K) ==
    {j \in KeyLinePositions(lines) :
        SectionAt(lines, j) = S /\ RuKeyOf(lines[j]) = K}

(***************************************************************************)
(* C29  Duplicate keys are last-write-wins: when the old destination has   *)
(* two or more key lines, active or tombstoned, of one key in one section  *)
(* and the source has that key in that section, the result has in that     *)
(* section the last of those destination lines, as it stood or with its    *)
(* comment prefix removed, and no other active line of that key.           *)
(***************************************************************************)
C29_LastWriteWins ==
    FirstMergeDone =>
        \A i \in SrcKeyPositions(SrcLines) :
            LET S    == SectionAt(SrcLines, i)
                K    == SrcKeyOf(SrcLines[i])
                old  == KeyPositionsOf(Dst0Lines, S, K)
                new  == KeyPositionsOf(DstLines, S, K)
                last == {Dst0Lines[MaxOf(old)],
                         LStrip(Dst0Lines[MaxOf(old)], CommentWS)}
            IN  (S # None /\ Cardinality(old) >= 2) =>
                    /\ \E p \in new : DstLines[p] \in last
                    /\ \A p \in new :
                        ~IsCommented(DstLines[p]) => DstLines[p] \in last

\* an active line of k followed by a tombstoned line of other value: the
\* merge revived the tombstoned one
C29_Witness ==
    /\ FirstMergeDone
    /\ src = <<"[", "a", "]", NL, "k", "=", "v", NL>>
    /\ dst0 = <<"[", "a", "]", NL, "k", "=", "V", NL, ";", " ", "k", "=", "W", NL>>
    /\ dst = <<"[", "a", "]", NL, "k", "=", "W", NL>>


(***************************************************************************)
(* C30  Written file names are confined to the input set: in both backends *)
(* translate_mod_locales_inplace writes only files whose names were loaded *)
(* from the destination directory, so the directory never gains a file; a  *)
(* single-bundle run that writes, writes exactly the loaded names; in      *)
(* per-file mode the n-th write is of the n-th loaded file, the one in     *)
(* translation; a name that only the response of the service holds is      *)
(* never written.                                                          *)
(***************************************************************************)
C30_WritesConfined ==
    /\ WrittenNames \subseteq DictKeys(loaded)
    /\ DictKeys(disk) = DictKeys(disk0)
    /\ (fileIdx = 0 /\ writes # <<>>) => WrittenNames = DictKeys(loaded)
    /\ fileIdx # 0 =>
        \A i \in DOMAIN writes :
            /\ writes[i].name = loaded[i][1]
            /\ writes[i].expected = <<writes[i].name>>
    /\ \A i \in DOMAIN writes :
        \A n \in DictKeys(split_cfg_files(writes[i].payload)) \ DictKeys(loaded) :
            n \notin DictKeys(disk)

\* in per-file mode a file was written from a payload that also held a file
\* of another name, which no loaded file has
C30_Witness ==
    /\ fileIdx # 0
    /\ \E i \in DOMAIN writes :
        DictKeys(split_cfg_files(writes[i].payload)) \ DictKeys(loaded) # {}

=============================================================================
